---- MODULE Spec2Model ----
(***************************************************************************)
(* generate.py: the stdin/stdout text generation loop of InvestGPT.        *)
(*                                                                         *)
(* A Python str is modelled as a sequence of pieces; a piece is either one *)
(* character that strip() or json.dumps() treats specially (a whitespace   *)
(* character) or a run of ordinary characters.  Concatenation of strs is   *)
(* \o on these sequences.  A line written to stdout or stderr is a TLA+    *)
(* string, built by json_dumps as json.dumps builds it.                    *)
(***************************************************************************)
EXTENDS Naturals, Sequences, FiniteSets

VARIABLES
    pc,          \* position of main(): Uninitialized, Loading, Ready, Processing, Generating, Terminated
    generator,   \* the pipeline handle bound at line 27, None before
    loads,       \* how many times the model was loaded (lines 25-27 run)
    stdin,       \* the input stream: open, eof (exhausted) or error (its iterator raised)
    lines,       \* the lines yielded so far by `for line in sys.stdin`
    calls,       \* the generator(...) calls made at line 39, with what each returned
    stdout,      \* the lines print() wrote to sys.stdout
    flushed,     \* how many lines of stdout have left the buffer of sys.stdout
    stderr,      \* the lines print(..., file=sys.stderr) wrote
    status       \* the exit status of the process, read when pc = "Terminated"

vars == <<pc, generator, loads, stdin, lines, calls, stdout, flushed, stderr, status>>

\* How many lines stdin delivers at most before end-of-input.
MaxLines == 2

---------------------------------------------------------------------------
(* Python values *)

MODEL_NAME == "EleutherAI/gpt-neo-125M"

None == [t |-> "NoneType", v |-> <<>>]

PyStr(s) == [t |-> "str", v |-> s]

PyInt == [t |-> "int", v |-> <<>>]

PyBool == [t |-> "bool", v |-> <<>>]

PyList == [t |-> "list", v |-> <<>>]

\* A dict is the sequence of its <<key, value>> members, in the order of the JSON text.
PyDict(members) == [t |-> "dict", v |-> members]

\* str.strip() with no argument removes leading and trailing whitespace.
IsSpace(c) == c \in {" ", "\t", "\n"}

RECURSIVE lstrip(_)
lstrip(s) == IF s # <<>> /\ IsSpace(Head(s)) THEN lstrip(Tail(s)) ELSE s

RECURSIVE rstrip(_)
rstrip(s) ==
    IF s # <<>> /\ IsSpace(s[Len(s)]) THEN rstrip(SubSeq(s, 1, Len(s) - 1)) ELSE s

strip(s) == rstrip(lstrip(s))

\* An exception, with the text str(e) gives.
Exc(type, msg) == [type |-> type, msg |-> msg]

str(e) == e.msg

\* The outcome of evaluating an expression: a value or a raised exception.
Return(v) == [raised |-> FALSE, value |-> v, exc |-> Exc("", <<>>)]

Raise(e) == [raised |-> TRUE, value |-> None, exc |-> e]

AttributeError(obj, name) ==
    Exc("AttributeError", <<"'" \o obj.t \o "' object has no attribute '" \o name \o "'">>)

---------------------------------------------------------------------------
(* The lines stdin can deliver *)

\* The text of a line: whether it is a JSON text, and the value it denotes if it is.
RawLine(valid, value) == [valid |-> valid, value |-> value]

SamplePrompts ==
    { <<>>, <<" ">>, <<"\t", "\n">>,
      <<"a">>, <<" ", "The stock market", "\n">>, <<"a", "\t", "b">> }

NonStrings == {None, PyInt, PyBool, PyList, PyDict(<<>>)}

NonObjects == {None, PyInt, PyBool, PyList, PyStr(<<"a">>)}

Objects ==
    {PyDict(<<>>)}
    \cup {PyDict(<< <<"prompt", PyStr(p)>> >>) : p \in SamplePrompts}
    \cup {PyDict(<< <<"prompt", x>> >>) : x \in NonStrings}
    \cup {PyDict(<< <<"prompt", PyStr(<<"a">>)>>, <<"max_length", PyInt>>,
                    <<"num_return_sequences", PyInt>> >>)}

StdinLines ==
    {RawLine(FALSE, None)} \cup {RawLine(TRUE, x) : x \in NonObjects \cup Objects}

\* What the iterator of sys.stdin can raise instead of yielding a line
\* (errors="strict" decoding of the bytes, or the read itself).
ReadErrors ==
    { Exc("UnicodeDecodeError",
          <<"'utf-8' codec can't decode byte 0xff in position 0: invalid start byte">>) }

LoadErrors ==
    { Exc("OSError", <<"resource unavailable">>) }

GenErrors ==
    { Exc("IndexError", <<"index out of range in self">>) }

\* What the pipeline can return for a prompt: a list of candidates, each a dict
\* with the key generated_text, whose text starts with the prompt.
Candidate(prompt, more) == [generated_text |-> prompt \o <<more>>]

\* The continuations of the candidates of one returned list: none, one or two.
Continuations == { <<>>, <<" rose">>, <<" rose", " fell">> }

GenOutput(prompt, more) == [k \in 1..Len(more) |-> Candidate(prompt, more[k])]

---------------------------------------------------------------------------
(* json *)

\* json.loads(line)
json_loads(line) ==
    IF line.valid
    THEN Return(line.value)
    ELSE Raise(Exc("JSONDecodeError", <<"Expecting value: line 1 column 1 (char 0)">>))

\* The escape json.dumps writes for one piece of a str.
Escape(c) ==
    CASE c = "\t" -> "\\t"
      [] c = "\n" -> "\\n"
      [] OTHER -> c

RECURSIVE Escaped(_)
Escaped(s) == IF s = <<>> THEN "" ELSE Escape(Head(s)) \o Escaped(Tail(s))

\* json.dumps({key: s}) for a str s
json_dumps(key, s) == "{\"" \o key \o "\": \"" \o Escaped(s) \o "\"}"

\* d.get(key, default) on the members of a dict: the last member named key wins.
RECURSIVE dict_get(_, _, _)
dict_get(members, key, default) ==
    IF members = <<>>
    THEN default
    ELSE LET last == members[Len(members)]
         IN  IF last[1] = key
             THEN last[2]
             ELSE dict_get(SubSeq(members, 1, Len(members) - 1), key, default)

---------------------------------------------------------------------------
(* The body of the loop, lines 33-35 *)

data_get_lenient(data) ==
    IF data.t = "dict"
    THEN Return(dict_get(data.v, "prompt", PyStr(<<>>)))
    ELSE Return(PyStr(<<>>))

\* Line 34, data.get("prompt", ""): only a dict has the attribute get.
data_get(data) ==
    IF data.t = "dict"
    THEN Return(dict_get(data.v, "prompt", PyStr(<<>>)))
    ELSE Raise(AttributeError(data, "get"))

\* Line 34, <value>.strip(): only a str has the attribute strip.
value_strip_missing(x) ==
    IF x.t = "str" THEN Return(x) ELSE Raise(AttributeError(x, "strip"))

value_strip(x) ==
    IF x.t = "str" THEN Return(PyStr(strip(x.v))) ELSE Raise(AttributeError(x, "strip"))

\* Lines 33-34: the prompt of a line, or the exception raised on the way.
prompt(line) ==
    LET data == json_loads(line)
    IN  IF data.raised THEN data
        ELSE LET got == data_get(data.value)
             IN  IF got.raised THEN got ELSE value_strip(got.value)

\* Line 40: output[0]["generated_text"] if output else ""
result_last(output) == IF output # <<>> THEN output[Len(output)].generated_text ELSE <<>>

result(output) == IF output # <<>> THEN output[1].generated_text ELSE <<>>

---------------------------------------------------------------------------
(* Output *)

\* print(text) to sys.stdout; drain tells whether this write empties the buffer
\* of sys.stdout (always on a terminal, only when the buffer fills on a pipe).
print(text, drain) ==
    /\ stdout' = Append(stdout, text)
    /\ flushed' = IF drain THEN Len(stdout) + 1 ELSE flushed

\* Lines 42-43: the handler of the loop body.
ExceptInner_Exit(e, drain) ==
    /\ print(json_dumps("error", str(e)), TRUE)
    /\ pc' = "Terminated"
    /\ status' = 1

ExceptInner(e, drain) ==
    /\ print(json_dumps("error", str(e)), drain)
    /\ pc' = "Ready"
    /\ UNCHANGED status

\* Lines 44-46: the handler around the whole of main(); sys.exit(1) ends the
\* process, and the interpreter flushes sys.stdout on the way out.
ExceptOuter_Return(e) ==
    /\ print(json_dumps("error", <<"Failed to load model: ">> \o str(e)), TRUE)
    /\ pc' = "Terminated"
    /\ status' = 0

ExceptOuter(e) ==
    /\ print(json_dumps("error", <<"Failed to load model: ">> \o str(e)), TRUE)
    /\ pc' = "Terminated"
    /\ status' = 1

---------------------------------------------------------------------------
(* The steps of main() *)

Init ==
    /\ pc = "Uninitialized"
    /\ generator = "None"
    /\ loads = 0
    /\ stdin = "open"
    /\ lines = <<>>
    /\ calls = <<>>
    /\ stdout = <<>>
    /\ flushed = 0
    /\ stderr = <<>>
    /\ status = 0

\* Line 24
BeginLoad ==
    /\ pc = "Uninitialized"
    /\ stderr' = Append(stderr, "Loading model...")
    /\ pc' = "Loading"
    /\ UNCHANGED <<generator, loads, stdin, lines, calls, stdout, flushed, status>>

LoadOk_NoticeOnStdout ==
    /\ pc = "Loading"
    /\ generator' = "pipeline:" \o MODEL_NAME
    /\ loads' = loads + 1
    /\ print("Model loaded.", FALSE)
    /\ pc' = "Ready"
    /\ UNCHANGED <<stdin, lines, calls, stderr, status>>

\* Lines 25-28, nothing raised
LoadOk ==
    /\ pc = "Loading"
    /\ generator' = "pipeline:" \o MODEL_NAME
    /\ loads' = loads + 1
    /\ stderr' = Append(stderr, "Model loaded.")
    /\ pc' = "Ready"
    /\ UNCHANGED <<stdin, lines, calls, stdout, flushed, status>>

\* Lines 25-27 raise e: control goes to line 44
LoadRaise(e) ==
    /\ pc = "Loading"
    /\ loads' = loads + 1
    /\ ExceptOuter(e)
    /\ UNCHANGED <<generator, stdin, lines, calls, stderr>>

ReadLine_Ahead(line) ==
    /\ pc \in {"Ready", "Processing", "Generating"}
    /\ Len(lines) < MaxLines
    /\ lines' = Append(lines, line)
    /\ pc' = "Processing"
    /\ UNCHANGED <<generator, loads, stdin, calls, stdout, flushed, stderr, status>>

\* Line 31: the iterator yields the next line
ReadLine(line) ==
    /\ pc = "Ready"
    /\ Len(lines) < MaxLines
    /\ lines' = Append(lines, line)
    /\ pc' = "Processing"
    /\ UNCHANGED <<generator, loads, stdin, calls, stdout, flushed, stderr, status>>

\* Line 31: end of input; the loop and main() end, the interpreter exits with 0
ReadEOF_Raise ==
    /\ pc = "Ready"
    /\ stdin' = "eof"
    /\ ExceptOuter(Exc("StopIteration", <<>>))
    /\ UNCHANGED <<generator, loads, lines, calls, stderr>>

ReadEOF ==
    /\ pc = "Ready"
    /\ stdin' = "eof"
    /\ pc' = "Terminated"
    /\ status' = 0
    /\ flushed' = Len(stdout)
    /\ UNCHANGED <<generator, loads, lines, calls, stdout, stderr>>

\* Line 31: the iterator raises e; line 31 is outside the try of line 32,
\* so control goes to line 44
ReadRaise(e) ==
    /\ pc = "Ready"
    /\ stdin' = "error"
    /\ ExceptOuter(e)
    /\ UNCHANGED <<generator, loads, lines, calls, stderr>>

Call_Short(n, p) ==
    [line |-> n, prompt |-> p, max_length |-> 64, num_return_sequences |-> 1,
     returned |-> FALSE, raised |-> FALSE, output |-> <<>>, exc |-> Exc("", <<>>)]

\* The call of line 39
Call(n, p) ==
    [line |-> n, prompt |-> p, max_length |-> 128, num_return_sequences |-> 1,
     returned |-> FALSE, raised |-> FALSE, output |-> <<>>, exc |-> Exc("", <<>>)]

\* Lines 33-39, up to the call of the generator
ProcessLine(drain) ==
    /\ pc = "Processing"
    /\ LET p == prompt(lines[Len(lines)])
       IN  IF p.raised
           THEN ExceptInner(p.exc, drain) /\ UNCHANGED calls
           ELSE IF p.value.v = <<>>
           THEN /\ print(json_dumps("error", <<"Prompt is required.">>), drain)
                /\ pc' = "Ready"
                /\ UNCHANGED <<calls, status>>
           ELSE /\ calls' = Append(calls, Call(Len(lines), p.value.v))
                /\ pc' = "Generating"
                /\ UNCHANGED <<stdout, flushed, status>>
    /\ UNCHANGED <<generator, loads, stdin, lines, stderr>>

GenReturn_Unguarded(more, drain) ==
    /\ pc = "Generating"
    /\ LET output == GenOutput(calls[Len(calls)].prompt, more)
       IN  /\ calls' = [calls EXCEPT ![Len(calls)].returned = TRUE,
                                     ![Len(calls)].output = output]
           /\ IF output = <<>>
              THEN ExceptInner(Exc("IndexError", <<"list index out of range">>), drain)
              ELSE /\ print(json_dumps("result", output[1].generated_text), drain)
                   /\ pc' = "Ready"
                   /\ UNCHANGED status
    /\ UNCHANGED <<generator, loads, stdin, lines, stderr>>

\* Lines 39-41: the generator returns a list of candidates continued by more
GenReturn(more, drain) ==
    /\ pc = "Generating"
    /\ LET output == GenOutput(calls[Len(calls)].prompt, more)
       IN  /\ calls' = [calls EXCEPT ![Len(calls)].returned = TRUE,
                                     ![Len(calls)].output = output]
           /\ print(json_dumps("result", result(output)), drain)
    /\ pc' = "Ready"
    /\ UNCHANGED <<generator, loads, stdin, lines, stderr, status>>

GenRaise_Retry(e, drain) ==
    /\ pc = "Generating"
    /\ calls' = Append([calls EXCEPT ![Len(calls)].raised = TRUE, ![Len(calls)].exc = e],
                       Call(Len(lines), calls[Len(calls)].prompt))
    /\ UNCHANGED <<pc, generator, loads, stdin, lines, stdout, flushed, stderr, status>>

GenRaise_Reload(e, drain) ==
    /\ pc = "Generating"
    /\ calls' = [calls EXCEPT ![Len(calls)].raised = TRUE, ![Len(calls)].exc = e]
    /\ ExceptInner(e, drain)
    /\ loads' = loads + 1
    /\ generator' = "pipeline:" \o MODEL_NAME
    /\ UNCHANGED <<stdin, lines, stderr>>

GenRaise_Timeout(e, drain) ==
    /\ pc = "Generating"
    /\ ExceptInner(Exc("TimeoutError", <<"generation timed out">>), drain)
    /\ UNCHANGED <<generator, loads, stdin, lines, calls, stderr>>

\* Line 39 raises e: control goes to line 42
GenRaise(e, drain) ==
    /\ pc = "Generating"
    /\ calls' = [calls EXCEPT ![Len(calls)].raised = TRUE, ![Len(calls)].exc = e]
    /\ ExceptInner(e, drain)
    /\ UNCHANGED <<generator, loads, stdin, lines, stderr>>

Next ==
    \/ BeginLoad
    \/ LoadOk
    \/ \E e \in LoadErrors : LoadRaise(e)
    \/ \E line \in StdinLines : ReadLine(line)
    \/ ReadEOF
    \/ \E e \in ReadErrors : ReadRaise(e)
    \/ \E drain \in BOOLEAN : ProcessLine(drain)
    \/ \E drain \in BOOLEAN : \E more \in Continuations : GenReturn(more, drain)
    \/ \E drain \in BOOLEAN : \E e \in GenErrors : GenRaise(e, drain)

Spec == Init /\ [][Next]_vars

\* main() is one thread of blocking calls: each of its own steps is taken when
\* it is due.  The calls it blocks on are fair when they come back: loading
\* returns or raises, stdin yields a line, ends or raises, and the generator
\* returns or raises.
FairSpec ==
    /\ Spec
    /\ WF_vars(BeginLoad)
    /\ WF_vars(LoadOk \/ \E e \in LoadErrors : LoadRaise(e))
    /\ WF_vars(\/ \E line \in StdinLines : ReadLine(line)
               \/ ReadEOF
               \/ \E e \in ReadErrors : ReadRaise(e))
    /\ WF_vars(\E drain \in BOOLEAN : ProcessLine(drain))
    /\ WF_vars(\/ \E drain \in BOOLEAN : \E more \in Continuations : GenReturn(more, drain)
               \/ \E drain \in BOOLEAN : \E e \in GenErrors : GenRaise(e, drain))

---------------------------------------------------------------------------
(* What the claims speak of *)

Loaded == generator # "None"

\* Line i has been read and its pass through the loop body has ended.
Answered(i) == i < Len(lines) \/ pc \notin {"Processing", "Generating"}

\* The lines whose pass through the loop body has ended.
NumAnswered == IF pc \in {"Processing", "Generating"} THEN Len(lines) - 1 ELSE Len(lines)

CallsFor(i) == {k \in DOMAIN calls : calls[k].line = i}

IsObject(line) == line.valid /\ line.value.t = "dict"

HasKey(line, key) == \E m \in DOMAIN line.value.v : line.value.v[m][1] = key

\* The value of the prompt member of an object that has one.
PromptOf(line) ==
    LET m == CHOOSE m \in DOMAIN line.value.v :
                 /\ line.value.v[m][1] = "prompt"
                 /\ \A n \in DOMAIN line.value.v : n > m => line.value.v[n][1] # "prompt"
    IN  line.value.v[m][2]

\* An object whose prompt is absent, the empty string or whitespace only.
BlankPrompt(line) ==
    /\ IsObject(line)
    /\ \/ ~HasKey(line, "prompt")
       \/ /\ PromptOf(line).t = "str"
          /\ \A n \in DOMAIN PromptOf(line).v : PromptOf(line).v[n] \in {" ", "\t", "\n"}

\* An object whose prompt is a string with something other than whitespace in it.
ValidPrompt(line) ==
    /\ IsObject(line)
    /\ HasKey(line, "prompt")
    /\ PromptOf(line).t = "str"
    /\ \E n \in DOMAIN PromptOf(line).v : PromptOf(line).v[n] \notin {" ", "\t", "\n"}

\* An object whose prompt is present and is not a string.
NonStringPrompt(line) ==
    /\ IsObject(line)
    /\ HasKey(line, "prompt")
    /\ PromptOf(line).t # "str"

PromptRequiredLine == "{\"error\": \"Prompt is required.\"}"

DecodeFailureLine == "{\"error\": \"Expecting value: line 1 column 1 (char 0)\"}"

ErrorLine(e) == "{\"error\": \"" \o Escaped(e.msg) \o "\"}"

FailedToLoadLine(e) == "{\"error\": \"Failed to load model: " \o Escaped(e.msg) \o "\"}"

ResultLine(text) == "{\"result\": \"" \o Escaped(text) \o "\"}"

\* The response the loop body owes to line i, once its pass has ended.
ResponseTo(i) ==
    LET p == prompt(lines[i])
        c == calls[CHOOSE k \in CallsFor(i) : TRUE]
    IN  IF p.raised THEN ErrorLine(p.exc)
        ELSE IF p.value.v = <<>> THEN PromptRequiredLine
        ELSE IF c.raised THEN ErrorLine(c.exc)
        ELSE ResultLine(result(c.output))

\* The loop stands at its head, or has ended because the input has.
LoopAlive == pc = "Ready" \/ (pc = "Terminated" /\ stdin = "eof" /\ status = 0)

\* Line i got exactly one line of standard output by the time the loop is back
\* at its head.
ExactlyOneLineFor(i) ==
    /\ Len(stdout) >= i
    /\ (pc = "Ready" /\ i = Len(lines)) => Len(stdout) = i

\* Right after line i was answered the loop goes on.
LoopGoesOnAfter(i) == (i = Len(lines) /\ Len(stdout) = i) => LoopAlive

---------------------------------------------------------------------------
(* Claims *)

\* C1: after a successful load, for the N lines read and answered, whatever
\* their outcomes, exactly N lines are on standard output and the i-th of them
\* is the response to the i-th line read.
C1_OneResponsePerLineInOrder ==
    Loaded =>
        /\ Len(stdout) = NumAnswered
        /\ \A i \in 1..NumAnswered : stdout[i] = ResponseTo(i)

\* C2: when model initialization fails the process writes exactly one line,
\* {"error": "Failed to load model: <message>"}, to standard output, reads no
\* line from standard input and exits with a non-zero status.
C2_LoadFailureIsFatal ==
    (pc = "Terminated" /\ ~Loaded) =>
        /\ \E e \in LoadErrors : stdout = <<FailedToLoadLine(e)>>
        /\ lines = <<>>
        /\ stdin = "open"
        /\ status # 0

C2_Witness == pc = "Terminated" /\ ~Loaded /\ loads = 1 /\ Len(stdout) = 1

\* C3: once the model has loaded, no failure met while a line is read,
\* decoded, validated, generated for or answered ends the loop: the only way
\* the process terminates is the end of the input.
C3_NoFailureEndsTheLoop ==
    (Loaded /\ pc = "Terminated") => stdin = "eof"

\* C4: the process exits with status 0 after end-of-input or with a non-zero
\* status after a failed load; a non-zero status and a "Failed to load model"
\* line occur only when initialization failed, never once the model is loaded.
C4_TwoExitPaths ==
    /\ pc = "Terminated" => \/ (status = 0 /\ Loaded /\ stdin = "eof")
                            \/ (status # 0 /\ ~Loaded)
    /\ (\E i \in DOMAIN stdout : \E e \in LoadErrors \cup ReadErrors :
            stdout[i] = FailedToLoadLine(e)) => (~Loaded /\ lines = <<>>)


\* C5: a JSON object whose prompt is absent, empty or whitespace only is
\* answered with exactly {"error": "Prompt is required."}, and the generator is
\* not called for it.
C5_BlankPromptIsRequired ==
    \A i \in 1..Len(lines) :
        BlankPrompt(lines[i]) =>
            /\ CallsFor(i) = {}
            /\ Answered(i) => (ExactlyOneLineFor(i) /\ stdout[i] = PromptRequiredLine)

C5_Witness ==
    /\ Len(lines) >= 2
    /\ pc = "Ready"
    /\ IsObject(lines[1]) /\ ~HasKey(lines[1], "prompt")
    /\ lines[2] = RawLine(TRUE, PyDict(<< <<"prompt", PyStr(<<"\t", "\n">>)>> >>))

\* C6: a JSON object whose prompt is present but is no string (a number, null,
\* a boolean, an array, an object) is answered with exactly
\* {"error": "Prompt is required."}.
C6_NonStringPromptIsRequired ==
    \A i \in 1..Len(lines) :
        (NonStringPrompt(lines[i]) /\ Answered(i)) =>
            (ExactlyOneLineFor(i) /\ stdout[i] = PromptRequiredLine)

\* C7: a line that is not valid JSON is answered with one {"error": <decode
\* failure>} line, the generator is not called for it, the loop goes on, and
\* every valid line read after it is answered.
C7_MalformedLineDoesNotStopTheLoop ==
    \A i \in 1..Len(lines) :
        ~lines[i].valid =>
            /\ CallsFor(i) = {}
            /\ Answered(i) =>
                /\ ExactlyOneLineFor(i)
                /\ stdout[i] = DecodeFailureLine
                /\ LoopGoesOnAfter(i)
                /\ \A j \in (i + 1)..Len(lines) :
                       (ValidPrompt(lines[j]) /\ Answered(j)) =>
                           (ExactlyOneLineFor(j) /\ stdout[j] = ResponseTo(j))

C7_Witness ==
    /\ Len(lines) >= 2
    /\ pc = "Ready"
    /\ ~lines[1].valid
    /\ ValidPrompt(lines[2])
    /\ \E k \in CallsFor(2) : calls[k].returned /\ calls[k].output # <<>>

\* C8, as stated: every line {"prompt": P} with P non-empty after trimming is
\* answered with {"result": <text of the first candidate the generator returned>}.
C8_ValidPromptAlwaysYieldsResult ==
    \A i \in 1..Len(lines) :
        (ValidPrompt(lines[i]) /\ Answered(i)) =>
            \E k \in CallsFor(i) :
                /\ calls[k].output # <<>>
                /\ stdout[i] = ResultLine(calls[k].output[1].generated_text)

\* C8, amended: every line {"prompt": P} with P non-empty after trimming, for
\* which the generator returns at least one candidate, is answered with exactly
\* one line, {"result": <text of the first candidate>}; the generator was
\* called once, with P trimmed.
C8_FirstCandidateIsTheResult ==
    \A i \in 1..Len(lines) :
        (ValidPrompt(lines[i]) /\ Answered(i)) =>
            /\ Cardinality(CallsFor(i)) = 1
            /\ \A k \in CallsFor(i) :
                   /\ calls[k].prompt = rstrip(lstrip(PromptOf(lines[i]).v))
                   /\ (calls[k].returned /\ calls[k].output # <<>>) =>
                          /\ ExactlyOneLineFor(i)
                          /\ stdout[i] = ResultLine(calls[k].output[1].generated_text)

C8_Witness ==
    /\ pc = "Ready"
    /\ Len(lines) >= 1
    /\ lines[1] = RawLine(TRUE, PyDict(<< <<"prompt", PyStr(<<" ", "The stock market", "\n">>)>> >>))
    /\ \E k \in CallsFor(1) : calls[k].returned /\ Len(calls[k].output) = 2
    /\ stdout[1] = "{\"result\": \"The stock market rose\"}"

\* C9: when the generator fails on a line, exactly one {"error": <message of the
\* failure>} line is written for that line, the generator is called at most once
\* per input line, and the loop goes on.
C9_FailedGenerationReportedOnce ==
    /\ \A i \in 1..Len(lines) : Cardinality(CallsFor(i)) <= 1
    /\ \A k \in DOMAIN calls :
           calls[k].raised =>
               /\ Answered(calls[k].line)
               /\ ExactlyOneLineFor(calls[k].line)
               /\ stdout[calls[k].line] = ErrorLine(calls[k].exc)
               /\ LoopGoesOnAfter(calls[k].line)

C9_Witness ==
    /\ pc = "Ready"
    /\ Len(lines) >= 2
    /\ \E k \in CallsFor(1) : calls[k].raised
    /\ stdout[1] = "{\"error\": \"index out of range in self\"}"
    /\ \E k \in CallsFor(2) : calls[k].returned

\* C10: when standard input ends after the model has loaded, the process exits
\* with status 0 and standard output holds exactly the responses to the lines
\* read, nothing more.
C10_CleanShutdown ==
    stdin = "eof" =>
        /\ Loaded
        /\ pc = "Terminated"
        /\ status = 0
        /\ Len(stdout) = Len(lines)
        /\ \A i \in 1..Len(lines) : stdout[i] = ResponseTo(i)

C10_Witness == stdin = "eof" /\ pc = "Terminated" /\ Len(lines) >= 2 /\ calls # <<>>

\* C11: every response is flushed as it is written: whenever the loop stands at
\* its head, about to block on the next line of input, every response written
\* so far has left the buffer of standard output and the consumer can see it.
C11_ResponseFlushedBeforeNextRead ==
    pc = "Ready" => flushed = Len(stdout)

\* The text of a JSON object with the single member key, whose value is the
\* string text.
OneKeyObject(key, text) == "{" \o "\"" \o key \o "\"" \o ": " \o "\"" \o Escaped(text) \o "\"" \o "}"

\* The strings the program can put into a response: the messages of the
\* exceptions, the fixed messages, the empty string and the generated texts.
ResponseTexts ==
    {e.msg : e \in GenErrors}
    \cup {<<"Failed to load model: ">> \o e.msg : e \in LoadErrors \cup ReadErrors}
    \cup {<<"Prompt is required.">>, <<"Expecting value: line 1 column 1 (char 0)">>, <<>>}
    \cup {<<"'" \o t \o "' object has no attribute '" \o a \o "'">> :
              t \in {"NoneType", "int", "bool", "list", "dict", "str"}, a \in {"get", "strip"}}
    \cup UNION {{calls[k].output[n].generated_text : n \in DOMAIN calls[k].output} :
                    k \in DOMAIN calls}

\* C12: every line on standard output is a JSON object with exactly one key,
\* "result" or "error", whose value is a string; the notices "Loading model..."
\* and "Model loaded." go to the diagnostic channel only.
C12_OutputIsOneKeyObjects ==
    /\ \A i \in DOMAIN stdout :
           \E key \in {"result", "error"} : \E text \in ResponseTexts :
               stdout[i] = OneKeyObject(key, text)
    /\ \A i \in DOMAIN stdout : stdout[i] \notin {"Loading model...", "Model loaded."}
    /\ \A i \in DOMAIN stderr : stderr[i] \in {"Loading model...", "Model loaded."}
    /\ pc # "Uninitialized" => (stderr # <<>> /\ stderr[1] = "Loading model...")
    /\ Loaded => stderr = <<"Loading model...", "Model loaded.">>

C12_Witness ==
    /\ Len(stdout) >= 2
    /\ stdout[1] = "{\"result\": \"a\\tb rose\"}"
    /\ stdout[2] = "{\"error\": \"'int' object has no attribute 'strip'\"}"
    /\ stderr = <<"Loading model...", "Model loaded.">>

\* C13: the model is initialized exactly once, before any line is read; once
\* it has loaded, no step of the loop, whatever the outcome of the line,
\* recreates, reloads or reassigns the generator.
C13_LoadedOnceNeverReloaded ==
    /\ [](loads <= 1)
    /\ [](pc \notin {"Uninitialized", "Loading"} => loads = 1)
    /\ [](lines # <<>> => (Loaded /\ loads = 1))
    /\ [][Loaded => (generator' = generator /\ loads' = loads)]_vars

C13_Witness ==
    /\ Loaded
    /\ loads = 1
    /\ pc = "Ready"
    /\ Len(lines) >= 2
    /\ \E k \in CallsFor(1) : calls[k].raised
    /\ ~lines[2].valid
    /\ Len(stdout) = 2

\* C14: processing is sequential: a line is read only when every line read
\* before it has its response on standard output, so at most one line is being
\* processed and at most one call of the generator is outstanding.
C14_StrictlySequential ==
    /\ [](pc \in {"Ready", "Processing", "Generating"} => Len(stdout) = NumAnswered)
    /\ [](Cardinality({k \in DOMAIN calls : ~calls[k].returned /\ ~calls[k].raised})
            = IF pc = "Generating" THEN 1 ELSE 0)
    /\ [][Len(lines') > Len(lines) =>
            (Len(lines') = Len(lines) + 1 /\ Len(stdout) = Len(lines) /\ pc = "Ready")]_vars

C14_Witness ==
    /\ pc = "Generating"
    /\ Len(lines) >= 2
    /\ Len(stdout) = Len(lines) - 1
    /\ Len(calls) >= 2

\* C15: every call of the generator gets the prompt of its line after
\* trimming, which is non-empty and neither starts nor ends with whitespace,
\* with maximum length 128 and one requested sequence, whatever other members
\* the request line has.
C15_CallArgumentsAreFixed ==
    \A k \in DOMAIN calls :
        /\ calls[k].prompt # <<>>
        /\ calls[k].prompt[1] \notin {" ", "\t", "\n"}
        /\ calls[k].prompt[Len(calls[k].prompt)] \notin {" ", "\t", "\n"}
        /\ ValidPrompt(lines[calls[k].line])
        /\ \E a, b \in 1..Len(PromptOf(lines[calls[k].line]).v) :
               calls[k].prompt = SubSeq(PromptOf(lines[calls[k].line]).v, a, b)
        /\ calls[k].max_length = 128
        /\ calls[k].num_return_sequences = 1

C15_Witness ==
    /\ Len(calls) >= 2
    /\ HasKey(lines[calls[1].line], "max_length")
    /\ HasKey(lines[calls[1].line], "num_return_sequences")
    /\ PromptOf(lines[calls[2].line]).v = <<" ", "The stock market", "\n">>
    /\ calls[2].prompt = <<"The stock market">>

\* C16: when the generator returns with no candidate at all, the response of
\* the line is the success response {"result": ""}, not an error.
C16_NoCandidateIsEmptyResult ==
    \A k \in DOMAIN calls :
        (calls[k].returned /\ calls[k].output = <<>>) =>
            /\ ExactlyOneLineFor(calls[k].line)
            /\ stdout[calls[k].line] = "{\"result\": \"\"}"
            /\ LoopGoesOnAfter(calls[k].line)

C16_Witness ==
    /\ pc = "Ready"
    /\ \E k \in DOMAIN calls :
           /\ calls[k].returned
           /\ calls[k].output = <<>>
           /\ calls[k].prompt = <<"a", "\t", "b">>
           /\ calls[k].line = Len(lines)

\* C17: a line that is valid JSON but no object (an array, a string, a number,
\* a boolean, null) is a parse failure: it gets exactly one {"error": <message>}
\* line, which is not the validation message, the generator is not called for
\* it and the loop goes on.
C17_NonObjectIsParseFailure ==
    \A i \in 1..Len(lines) :
        (lines[i].valid /\ lines[i].value.t # "dict") =>
            /\ CallsFor(i) = {}
            /\ Answered(i) =>
                /\ ExactlyOneLineFor(i)
                /\ stdout[i] = "{\"error\": \"'" \o lines[i].value.t
                                   \o "' object has no attribute 'get'\"}"
                /\ stdout[i] # PromptRequiredLine
                /\ LoopGoesOnAfter(i)

C17_Witness ==
    /\ pc = "Ready"
    /\ Len(lines) >= 2
    /\ lines[1] = RawLine(TRUE, PyList)
    /\ stdout[1] = "{\"error\": \"'list' object has no attribute 'get'\"}"
    /\ ValidPrompt(lines[2])
    /\ Len(stdout) = 2

\* C18: when initialization returns, the input is finite and every call of the
\* generator returns or fails, the service eventually terminates, with a
\* response on standard output for every line it read; there is no timeout:
\* only the return or the failure of the outstanding call takes the service out
\* of the call.
C18_TerminatesAndAnswersEveryLine ==
    /\ <>(pc = "Terminated" /\ \A i \in 1..Len(lines) : Len(stdout) >= i)
    /\ [][(pc = "Generating" /\ pc' # "Generating") =>
            ( /\ calls'[Len(calls)].returned \/ calls'[Len(calls)].raised
              /\ Len(stdout') = Len(stdout) + 1 )]_vars

C18_Witness ==
    /\ pc = "Terminated"
    /\ Len(lines) >= 2
    /\ Len(stdout) >= 2
    /\ \E k \in DOMAIN calls : calls[k].returned
    /\ \E k \in DOMAIN calls : calls[k].raised

====
